---------------------------- MODULE Spec2Model ----------------------------
(* A model of src/app.py, the risk scoring dashboard: a script that the UI  *)
(* framework executes from top to bottom once when the page is opened and   *)
(* once more after every widget interaction.  One action per block of the   *)
(* script; an exception ends the run where it is raised.                    *)
EXTENDS Integers, Sequences, FiniteSets, TLC

VARIABLES file, pc, error, rendered, df, options, selected_risk,
          min_gambling_spend, filtered_df, header, bucket_counts, bar,
          metrics, panels, session_risk, session_spend

vars == <<file, pc, error, rendered, df, options, selected_risk,
          min_gambling_spend, filtered_df, header, bucket_counts, bar,
          metrics, panels, session_risk, session_spend>>

-----------------------------------------------------------------------------
(* Bounds of the input files.                                               *)
MaxRows == 3
MaxNaRows == 2
MaxNormRows == 2
MaxColRows == 2

-----------------------------------------------------------------------------
(* Cell values.  A number is an int64, a float64 (the exact rational n/d)   *)
(* or the float NaN; a risk_bucket cell is a str, an int or NaN.            *)
IntV(i) == [k |-> "int", n |-> i, d |-> 1]
FloatV(a, b) == [k |-> "float", n |-> a, d |-> b]
NaNV == [k |-> "nan", n |-> 0, d |-> 1]

StrB(s) == [k |-> "str", s |-> s, i |-> 0]
IntB(j) == [k |-> "int", s |-> "", i |-> j]
NaNB == [k |-> "nan", s |-> "", i |-> 0]
NoneB == [k |-> "none", s |-> "None", i |-> 0]

(* The threshold of the spend filter, in pounds. *)
SpendThreshold == 100

(* Strings that occur as risk_bucket values, in code point order: this is   *)
(* the order of Python's < on str, which sorted() uses.                     *)
CodePointOrder == <<"1", "2", "High", "Low", "nan">>

StrRank(s) == CHOOSE r \in 1..Len(CodePointOrder) : CodePointOrder[r] = s

NoError == [line |-> 0, exc |-> ""]
Raise(l, e) == [line |-> l, exc |-> e]

NoFrame == [cols |-> {}, index |-> <<>>, rows |-> <<>>]
NoHeader == [n |-> 0, category |-> ""]

RECURSIVE SelectSeq2(_, _, _)
(* The subsequence of s at the positions (ascending) that belong to keep.   *)
SelectSeq2(s, keep, p) ==
    IF p > Len(s) THEN <<>>
    ELSE (IF p \in keep THEN <<s[p]>> ELSE <<>>) \o SelectSeq2(s, keep, p + 1)

(* df[mask]: the rows where mask holds, each with its index label. *)
BoolIndex(t, keep) ==
    [cols |-> t.cols,
     index |-> SelectSeq2(t.index, keep, 1),
     rows |-> SelectSeq2(t.rows, keep, 1)]

-----------------------------------------------------------------------------
(* The input files the model draws from.                                    *)
AllCols == {"risk_score", "risk_bucket", "gambling_days", "gambling_spend",
            "total_txn_count", "total_spend", "gambling_txn_pct",
            "gambling_pct_of_spend", "risk_reason", "gambling_txn_count"}

MkRow(score, bucket, spend, pct, total, count) ==
    [risk_score |-> score, risk_bucket |-> bucket, gambling_days |-> IntV(4),
     gambling_spend |-> spend, total_txn_count |-> total,
     total_spend |-> FloatV(400, 1), gambling_txn_pct |-> pct,
     gambling_pct_of_spend |-> FloatV(3, 8), risk_reason |-> "reason",
     gambling_txn_count |-> count]

DropCols(row, missing) == [c \in (DOMAIN row) \ missing |-> row[c]]

Tables(R, maxlen) == UNION {[1..len -> R] : len \in 0..maxlen}

MkFile(rows, missing) ==
    [cols |-> AllCols \ missing,
     rows |-> [p \in 1..Len(rows) |-> DropCols(rows[p], missing)]]

(* Files that vary the bucket and the spend of each row. *)
FilterRows ==
    {MkRow(IntV(3), StrB(b), FloatV(s, 1), FloatV(1, 2), IntV(4), IntV(2)) :
        b \in {"High", "Low"}, s \in {50, 100, 150, 200}}

FilterFiles == {MkFile(r, {}) : r \in Tables(FilterRows, MaxRows)}

(* Files whose risk_bucket column has missing cells (dtype object), or      *)
(* holds integers (dtype int64).                                            *)
NaRows ==
    {MkRow(IntV(3), b, FloatV(s, 1), FloatV(1, 2), IntV(4), IntV(2)) :
        b \in {StrB("High"), NaNB}, s \in {50, 150}}

IntRows ==
    {MkRow(IntV(3), IntB(j), FloatV(150, 1), FloatV(1, 2), IntV(4), IntV(2)) :
        j \in {1, 2}}

NaFiles == {MkFile(r, {}) : r \in Tables(NaRows, MaxNaRows) \cup Tables(IntRows, MaxNaRows)}

(* Files that vary what the normalization reads: a float risk_score column  *)
(* (possibly with a missing cell), the operands of the derivation, and the  *)
(* presence of a gambling_txn_count column.                                 *)
NormRows ==
    {MkRow(sc, StrB("High"), FloatV(150, 1), FloatV(p, 4), IntV(t), IntV(7)) :
        sc \in {FloatV(5, 2), FloatV(3, 1), NaNV}, p \in {1, 2}, t \in {3, 5}}

NormFiles ==
    {MkFile(r, m) : r \in Tables(NormRows, MaxNormRows),
                    m \in {{}, {"gambling_txn_count"}}}

(* Files that lack one column, with and without gambling_txn_count. *)
ColRows ==
    {MkRow(IntV(3), StrB(b), FloatV(s, 1), FloatV(1, 2), IntV(4), IntV(2)) :
        b \in {"High", "Low"}, s \in {50, 150}}

ColFiles ==
    {MkFile(r, {c} \cup m) : r \in Tables(ColRows, MaxColRows),
                             c \in AllCols \ {"gambling_txn_count"},
                             m \in {{}, {"gambling_txn_count"}}}

Files == FilterFiles \cup NaFiles \cup NormFiles \cup ColFiles

-----------------------------------------------------------------------------
(* Line 11: pd.read_csv gives the rows a RangeIndex 0..n-1. *)
read_csv(f) ==
    [cols |-> f.cols,
     index |-> [p \in 1..Len(f.rows) |-> p - 1],
     rows |-> f.rows]

(* Truncation toward zero of the float n/d, as astype(int) does. *)
Trunc(n, d) == IF n >= 0 THEN n \div d ELSE -((-n) \div d)

astype_int(v) == IF v.k = "float" THEN IntV(Trunc(v.n, v.d)) ELSE v

astype_str_keepna(v) ==
    CASE v.k = "int" -> StrB(ToString(v.i))
      [] OTHER -> v

(* str(x) of a cell: a missing cell becomes the string "nan". *)
astype_str(v) ==
    CASE v.k = "str" -> v
      [] v.k = "int" -> StrB(ToString(v.i))
      [] OTHER -> StrB("nan")

(* df[c] = vals: the column c is replaced, or added when it is new. *)
SetCol(t, c, vals) ==
    [t EXCEPT !.cols = @ \cup {c},
              !.rows = [p \in 1..Len(t.rows) |->
                          [k \in (DOMAIN t.rows[p]) \cup {c} |->
                              IF k = c THEN vals[p] ELSE t.rows[p][k]]]]

(* Line 14. *)
CastRiskScore(t) ==
    SetCol(t, "risk_score",
           [p \in 1..Len(t.rows) |-> astype_int(t.rows[p]["risk_score"])])

CastRiskScoreError(t) ==
    IF "risk_score" \notin t.cols THEN Raise(14, "KeyError")
    ELSE IF \E p \in 1..Len(t.rows) : t.rows[p]["risk_score"].k = "nan"
         THEN Raise(14, "IntCastingNaNError")
         ELSE NoError

(* Line 15. *)
CastRiskBucket(t) ==
    SetCol(t, "risk_bucket",
           [p \in 1..Len(t.rows) |-> astype_str(t.rows[p]["risk_bucket"])])

CastRiskBucketError(t) ==
    IF "risk_bucket" \notin t.cols THEN Raise(15, "KeyError") ELSE NoError

(* Line 16: rename ignores a column that is not there. *)
RenameDays(t) ==
    IF "gambling_days" \notin t.cols THEN t
    ELSE LET cs == (t.cols \ {"gambling_days"}) \cup {"deposit_days"}
         IN  [t EXCEPT !.cols = cs,
                       !.rows = [p \in 1..Len(t.rows) |->
                                   [k \in cs |->
                                       IF k = "deposit_days"
                                       THEN t.rows[p]["gambling_days"]
                                       ELSE t.rows[p][k]]]]

(* Series.round(): to the nearest integer, a tie to the even one. *)
RoundHalfUp(n, d) ==
    LET q == n \div d
        r == n % d
    IN  IF 2 * r >= d THEN q + 1 ELSE q

Round(n, d) ==
    LET q == n \div d
        r == n % d
    IN  IF 2 * r < d THEN q
        ELSE IF 2 * r > d THEN q + 1
        ELSE IF q % 2 = 0 THEN q ELSE q + 1

(* Line 20, one row: (pct * total).round().astype(int). *)
DerivedCount(row) ==
    LET pct == row["gambling_txn_pct"]
        tot == row["total_txn_count"]
    IN  IntV(Round(pct.n * tot.n, pct.d * tot.d))

DeriveAlways(t) ==
    IF {"gambling_txn_pct", "total_txn_count"} \subseteq t.cols
    THEN SetCol(t, "gambling_txn_count",
                [p \in 1..Len(t.rows) |-> DerivedCount(t.rows[p])])
    ELSE t

(* Lines 19-20. *)
DeriveTxnCount(t) ==
    IF "gambling_txn_count" \in t.cols THEN t
    ELSE SetCol(t, "gambling_txn_count",
                [p \in 1..Len(t.rows) |-> DerivedCount(t.rows[p])])

DeriveTxnCountError(t) ==
    IF "gambling_txn_count" \in t.cols THEN NoError
    ELSE IF "gambling_txn_pct" \notin t.cols \/ "total_txn_count" \notin t.cols
         THEN Raise(20, "KeyError")
         ELSE NoError

(* Lines 13-20, in order; the first exception ends the run. *)
Normalize(t) ==
    IF CastRiskScoreError(t) # NoError
    THEN [err |-> CastRiskScoreError(t), df |-> t]
    ELSE LET t1 == CastRiskScore(t) IN
    IF CastRiskBucketError(t1) # NoError
    THEN [err |-> CastRiskBucketError(t1), df |-> t1]
    ELSE LET t2 == RenameDays(CastRiskBucket(t1)) IN
    IF DeriveTxnCountError(t2) # NoError
    THEN [err |-> DeriveTxnCountError(t2), df |-> t2]
    ELSE [err |-> NoError, df |-> DeriveTxnCount(t2)]

-----------------------------------------------------------------------------
(* Lines 23-25: the sidebar.                                                *)
BucketCol(t) == [p \in 1..Len(t.rows) |-> t.rows[p]["risk_bucket"]]

RECURSIVE UniqueFrom(_, _, _)
UniqueFrom(vals, p, seen) ==
    IF p > Len(vals) THEN <<>>
    ELSE IF vals[p] \in seen THEN UniqueFrom(vals, p + 1, seen)
         ELSE <<vals[p]>> \o UniqueFrom(vals, p + 1, seen \cup {vals[p]})

(* Series.unique(): the distinct values in order of first appearance. *)
unique(vals) == UniqueFrom(vals, 1, {})

Range(s) == {s[p] : p \in 1..Len(s)}

(* Python's < between two cells: defined on two str and on two int. *)
Comparable(S) == \/ Cardinality(S) <= 1
                 \/ \A v \in S : v.k = "str"
                 \/ \A v \in S : v.k = "int"

SortKey(v) == IF v.k = "str" THEN StrRank(v.s) ELSE v.i

RECURSIVE SortedSet(_)
SortedSet(S) ==
    IF S = {} THEN <<>>
    ELSE LET m == CHOOSE x \in S : \A y \in S : SortKey(x) <= SortKey(y)
         IN  <<m>> \o SortedSet(S \ {m})

unsorted(vals) == vals

(* sorted(values): ascending; the order of the input does not matter. *)
sorted(vals) == SortedSet(Range(vals))

SidebarError(t) ==
    IF Comparable(Range(unique(BucketCol(t)))) THEN NoError
    ELSE Raise(24, "TypeError")

(* st.selectbox: the value chosen in the session if it is still an option, *)
(* else the first option, or None when there is no option.                  *)
selectbox(opts, chosen) ==
    IF opts = <<>> THEN NoneB
    ELSE IF chosen \in Range(opts) THEN chosen ELSE opts[1]

-----------------------------------------------------------------------------
(* Lines 28-30: the filter.                                                 *)
(* == between a cell and the selection: NaN and None equal nothing. *)
CellEq(v, w) == v.k # "nan" /\ w.k \notin {"nan", "none"} /\ v = w

BucketMaskGe(t, sel) ==
    {p \in 1..Len(t.rows) :
        LET v == t.rows[p]["risk_bucket"]
        IN  v.k = sel.k /\ v.k \in {"str", "int"} /\ SortKey(v) >= SortKey(sel)}

(* Line 28: df['risk_bucket'] == selected_risk. *)
BucketMask(t, sel) ==
    {p \in 1..Len(t.rows) : CellEq(t.rows[p]["risk_bucket"], sel)}

SpendMaskGe(t) ==
    {p \in 1..Len(t.rows) :
        LET v == t.rows[p]["gambling_spend"]
        IN  v.k # "nan" /\ v.n >= SpendThreshold * v.d}

(* Line 30: filtered_df['gambling_spend'] > 100. *)
SpendMask(t) ==
    {p \in 1..Len(t.rows) :
        LET v == t.rows[p]["gambling_spend"]
        IN  v.k # "nan" /\ v.n > SpendThreshold * v.d}

FilterInPlace(t, sel, flag) ==
    LET byBucket == BoolIndex(t, BucketMask(t, sel))
        f == IF flag THEN BoolIndex(byBucket, SpendMask(byBucket)) ELSE byBucket
    IN  [df |-> f, filtered_df |-> f]

(* What lines 28-30 bind: filtered_df is a new frame, df is left alone. *)
FilterData(t, sel, flag) ==
    LET byBucket == BoolIndex(t, BucketMask(t, sel))
    IN  [df |-> t,
         filtered_df |-> IF flag THEN BoolIndex(byBucket, SpendMask(byBucket))
                         ELSE byBucket]

FilterError(t, flag) ==
    IF flag /\ "gambling_spend" \notin t.cols THEN Raise(30, "KeyError")
    ELSE NoError

(* str(x) inside an f-string. *)
PyStr(v) ==
    CASE v.k = "str" -> v.s
      [] v.k = "int" -> ToString(v.i)
      [] v.k = "none" -> "None"
      [] OTHER -> "nan"

(* Line 34. *)
MakeHeader(f, sel) == [n |-> Len(f.rows), category |-> PyStr(sel)]

-----------------------------------------------------------------------------
(* Lines 39-40: value_counts().reset_index().                               *)
CountOf(vals, v) == Cardinality({p \in 1..Len(vals) : vals[p] = v})

RECURSIVE SortDesc(_)
(* sort_values(ascending=False): equal counts keep their order. *)
SortDesc(es) ==
    IF es = <<>> THEN <<>>
    ELSE LET m == CHOOSE p \in 1..Len(es) :
                    /\ \A q \in 1..Len(es) : es[q].count <= es[p].count
                    /\ \A q \in 1..(p - 1) : es[q].count < es[p].count
         IN  <<es[m]>> \o SortDesc(SelectSeq2(es, (1..Len(es)) \ {m}, 1))

value_counts_asc(t) ==
    LET vals == BucketCol(t)
        u == SelectSeq(unique(vals), LAMBDA v : v.k # "nan")
        s == SortDesc([p \in 1..Len(u) |-> [bucket |-> u[p], count |-> CountOf(vals, u[p])]])
    IN  [p \in 1..Len(s) |-> s[Len(s) + 1 - p]]

(* value_counts drops missing cells and lists the most frequent value first. *)
value_counts(t) ==
    LET vals == BucketCol(t)
        u == SelectSeq(unique(vals), LAMBDA v : v.k # "nan")
    IN  SortDesc([p \in 1..Len(u) |->
                    [bucket |-> u[p], count |-> CountOf(vals, u[p])]])

(* Lines 45-49: x is encoded with sort=None, so the bars keep the order of  *)
(* the rows of bucket_counts.                                               *)
BarData(counts) == counts

-----------------------------------------------------------------------------
(* Lines 55-57: the summary metrics.                                        *)
RECURSIVE SumFrom(_, _)
SumFrom(vals, p) ==
    IF p > Len(vals) THEN FloatV(0, 1)
    ELSE LET a == vals[p]
             b == SumFrom(vals, p + 1)
         IN  FloatV(a.n * b.d + b.n * a.d, a.d * b.d)

(* Series.mean(): NaN for an empty series. *)
Mean(vals) ==
    IF Len(vals) = 0 THEN NaNV
    ELSE LET s == SumFrom(vals, 1) IN FloatV(s.n, s.d * Len(vals))

Col(t, c) == [p \in 1..Len(t.rows) |-> t.rows[p][c]]

Pow10(e) == IF e = 0 THEN 1 ELSE IF e = 1 THEN 10 ELSE 100

Pad(x, width) ==
    IF width = 2 /\ x < 10 THEN "0" \o ToString(x)
    ELSE IF width = 3 /\ x < 10 THEN "00" \o ToString(x)
    ELSE IF width = 3 /\ x < 100 THEN "0" \o ToString(x)
    ELSE ToString(x)

RECURSIVE Grouped(_)
Grouped(x) ==
    IF x < 1000 THEN ToString(x)
    ELSE Grouped(x \div 1000) \o "," \o Pad(x % 1000, 3)

(* format(v, ',.2f'), format(v, '.1f'), format(v, '.2f') of a float >= 0:   *)
(* the float NaN is formatted as "nan".                                     *)
FormatFixed(v, prec, grouping) ==
    IF v.k = "nan" THEN "nan"
    ELSE LET scaled == Round(v.n * Pow10(prec), v.d)
             ip == scaled \div Pow10(prec)
             fp == scaled % Pow10(prec)
         IN  (IF grouping THEN Grouped(ip) ELSE ToString(ip))
             \o "." \o Pad(fp, prec)

(* format(v, '.2%'). *)
FormatPercent(v) == FormatFixed(FloatV(v.n * 100, v.d), 2, FALSE) \o "%"

SummaryMetrics(f) ==
    <<"£" \o FormatFixed(Mean(Col(f, "gambling_spend")), 2, TRUE),
      FormatFixed(Mean(Col(f, "gambling_txn_count")), 1, FALSE),
      FormatFixed(Mean(Col(f, "risk_score")), 2, FALSE)>>

SummaryError(f) ==
    IF "gambling_spend" \notin f.cols THEN Raise(55, "KeyError") ELSE NoError

-----------------------------------------------------------------------------
(* Lines 61-73: one expander per row of filtered_df.                        *)
PanelKeys == <<[col |-> "risk_bucket", line |-> 64],
               [col |-> "risk_reason", line |-> 65],
               [col |-> "total_txn_count", line |-> 66],
               [col |-> "total_spend", line |-> 67],
               [col |-> "gambling_spend", line |-> 68],
               [col |-> "gambling_txn_count", line |-> 69],
               [col |-> "gambling_txn_pct", line |-> 70],
               [col |-> "gambling_pct_of_spend", line |-> 71],
               [col |-> "deposit_days", line |-> 72]>>

(* Line 62; the dash of the title is written "--" here. *)
PanelTitle(idx, row) ==
    "User " \o ToString(idx) \o " -- Score: " \o ToString(row["risk_score"].n)
    \o " | Spend: £" \o FormatFixed(row["gambling_spend"], 2, FALSE)

PanelBody(row) ==
    [label \in {"Risk Bucket", "Explanation", "Total Txns", "Total Spend",
                "Gambling Spend", "Gambling Txns", "Gambling % of Txns",
                "Gambling % of Spend", "Deposit Days"} |->
        CASE label = "Risk Bucket" -> row["risk_bucket"].s
          [] label = "Explanation" -> row["risk_reason"]
          [] label = "Total Txns" -> row["total_txn_count"]
          [] label = "Total Spend" -> row["total_spend"]
          [] label = "Gambling Spend" -> row["gambling_spend"]
          [] label = "Gambling Txns" -> row["gambling_txn_count"]
          [] label = "Gambling % of Txns" -> FormatPercent(row["gambling_txn_pct"])
          [] label = "Gambling % of Spend" -> FormatPercent(row["gambling_pct_of_spend"])
          [] OTHER -> row["deposit_days"]]

EmptyBody == [label \in {} |-> ""]

(* The first row raises KeyError at the first key that is no column. *)
PanelsError(f) ==
    IF Len(f.rows) = 0 \/ \A q \in 1..Len(PanelKeys) : PanelKeys[q].col \in f.cols
    THEN NoError
    ELSE LET q == CHOOSE q \in 1..Len(PanelKeys) :
                    /\ PanelKeys[q].col \notin f.cols
                    /\ \A o \in 1..(q - 1) : PanelKeys[o].col \in f.cols
         IN  Raise(PanelKeys[q].line, "KeyError")

DetailPanels(f) ==
    IF PanelsError(f) # NoError
    THEN <<[idx |-> f.index[1], title |-> PanelTitle(f.index[1], f.rows[1]),
            body |-> EmptyBody]>>
    ELSE [p \in 1..Len(f.rows) |->
            [idx |-> f.index[p], title |-> PanelTitle(f.index[p], f.rows[p]),
             body |-> PanelBody(f.rows[p])]]

(* Lines 78-85: regplot reads two columns of the full table. *)
ScatterError(t) ==
    IF "gambling_txn_pct" \notin t.cols \/ "gambling_pct_of_spend" \notin t.cols
    THEN Raise(78, "KeyError") ELSE NoError

-----------------------------------------------------------------------------
(* The script run.                                                          *)
Init ==
    /\ file \in Files
    /\ pc = "load"
    /\ error = NoError
    /\ rendered = {}
    /\ df = NoFrame
    /\ options = <<>>
    /\ selected_risk = NoneB
    /\ min_gambling_spend = FALSE
    /\ filtered_df = NoFrame
    /\ header = NoHeader
    /\ bucket_counts = <<>>
    /\ bar = <<>>
    /\ metrics = <<>>
    /\ panels = <<>>
    /\ session_risk = NoneB
    /\ session_spend = FALSE

(* An uncaught exception: the run stops and what was rendered stays. *)
Fail(e, shown) ==
    /\ pc' = "error"
    /\ error' = e
    /\ rendered' = rendered \cup shown

Step(next, shown) ==
    /\ pc' = next
    /\ error' = error
    /\ rendered' = rendered \cup shown

(* Line 11. *)
Load ==
    /\ pc = "load"
    /\ df' = read_csv(file)
    /\ Step("normalize", {})
    /\ UNCHANGED <<file, options, selected_risk, min_gambling_spend,
                   filtered_df, header, bucket_counts, bar, metrics, panels,
                   session_risk, session_spend>>

(* Lines 13-20. *)
NormalizeTable ==
    /\ pc = "normalize"
    /\ LET r == Normalize(df)
       IN  /\ df' = r.df
           /\ IF r.err # NoError THEN Fail(r.err, {}) ELSE Step("sidebar", {})
    /\ UNCHANGED <<file, options, selected_risk, min_gambling_spend,
                   filtered_df, header, bucket_counts, bar, metrics, panels,
                   session_risk, session_spend>>

(* Lines 22-25. *)
Sidebar ==
    /\ pc = "sidebar"
    /\ IF SidebarError(df) # NoError
       THEN /\ Fail(SidebarError(df), {"sidebar_header"})
            /\ UNCHANGED <<options, selected_risk, min_gambling_spend>>
       ELSE /\ options' = sorted(unique(BucketCol(df)))
            /\ selected_risk' = selectbox(options', session_risk)
            /\ min_gambling_spend' = session_spend
            /\ Step("filter", {"sidebar_header", "selectbox", "checkbox"})
    /\ UNCHANGED <<file, df, filtered_df, header, bucket_counts, bar, metrics,
                   panels, session_risk, session_spend>>

(* Lines 27-30. *)
Filter ==
    /\ pc = "filter"
    /\ IF FilterError(df, min_gambling_spend) # NoError
       THEN /\ Fail(FilterError(df, min_gambling_spend), {})
            /\ UNCHANGED <<df, filtered_df>>
       ELSE LET r == FilterData(df, selected_risk, min_gambling_spend)
            IN  /\ df' = r.df
                /\ filtered_df' = r.filtered_df
                /\ Step("header", {})
    /\ UNCHANGED <<file, options, selected_risk, min_gambling_spend, header,
                   bucket_counts, bar, metrics, panels, session_risk,
                   session_spend>>

(* Lines 32-35. *)
Header ==
    /\ pc = "header"
    /\ header' = MakeHeader(filtered_df, selected_risk)
    /\ Step("bucket_table", {"title", "header"})
    /\ UNCHANGED <<file, df, options, selected_risk, min_gambling_spend,
                   filtered_df, bucket_counts, bar, metrics, panels,
                   session_risk, session_spend>>

(* Lines 37-41. *)
BucketTable ==
    /\ pc = "bucket_table"
    /\ bucket_counts' = value_counts(df)
    /\ Step("bar_chart", {"bucket_heading", "bucket_table"})
    /\ UNCHANGED <<file, df, options, selected_risk, min_gambling_spend,
                   filtered_df, header, bar, metrics, panels, session_risk,
                   session_spend>>

(* Lines 43-50. *)
BarChart ==
    /\ pc = "bar_chart"
    /\ bar' = BarData(bucket_counts)
    /\ Step("summary", {"bar_heading", "bar_chart"})
    /\ UNCHANGED <<file, df, options, selected_risk, min_gambling_spend,
                   filtered_df, header, bucket_counts, metrics, panels,
                   session_risk, session_spend>>

(* Lines 52-57. *)
Summary ==
    /\ pc = "summary"
    /\ IF SummaryError(filtered_df) # NoError
       THEN /\ Fail(SummaryError(filtered_df), {"summary_heading"})
            /\ UNCHANGED metrics
       ELSE /\ metrics' = SummaryMetrics(filtered_df)
            /\ Step("details", {"summary_heading", "metrics"})
    /\ UNCHANGED <<file, df, options, selected_risk, min_gambling_spend,
                   filtered_df, header, bucket_counts, bar, panels,
                   session_risk, session_spend>>

(* Lines 59-73. *)
Details ==
    /\ pc = "details"
    /\ panels' = DetailPanels(filtered_df)
    /\ IF PanelsError(filtered_df) # NoError
       THEN Fail(PanelsError(filtered_df), {"details_heading", "expander"})
       ELSE Step("scatter",
                 {"details_heading"} \cup
                 (IF Len(filtered_df.rows) > 0 THEN {"expander"} ELSE {}))
    /\ UNCHANGED <<file, df, options, selected_risk, min_gambling_spend,
                   filtered_df, header, bucket_counts, bar, metrics,
                   session_risk, session_spend>>

(* Lines 75-90.  The regression of an empty table is left to the plotting   *)
(* library: it may draw an empty plot or raise.                             *)
Scatter ==
    /\ pc = "scatter"
    /\ \E drawn \in BOOLEAN :
         IF ScatterError(df) # NoError
         THEN Fail(ScatterError(df), {"scatter_heading"})
         ELSE IF Len(df.rows) = 0 /\ ~drawn
              THEN Fail(Raise(78, "ValueError"), {"scatter_heading"})
              ELSE Step("pdf", {"scatter_heading", "scatter"})
    /\ UNCHANGED <<file, df, options, selected_risk, min_gambling_spend,
                   filtered_df, header, bucket_counts, bar, metrics, panels,
                   session_risk, session_spend>>

(* Lines 92-103. *)
PdfExport ==
    /\ pc = "pdf"
    /\ Step("done", {"download_button"})
    /\ UNCHANGED <<file, df, options, selected_risk, min_gambling_spend,
                   filtered_df, header, bucket_counts, bar, metrics, panels,
                   session_risk, session_spend>>

(* A widget interaction: the framework runs the script again from line 1,   *)
(* in a fresh namespace, with the widget values of the session.             *)
Rerun ==
    /\ pc' = "load"
    /\ error' = NoError
    /\ rendered' = {}
    /\ df' = NoFrame
    /\ options' = <<>>
    /\ selected_risk' = NoneB
    /\ min_gambling_spend' = FALSE
    /\ filtered_df' = NoFrame
    /\ header' = NoHeader
    /\ bucket_counts' = <<>>
    /\ bar' = <<>>
    /\ metrics' = <<>>
    /\ panels' = <<>>
    /\ UNCHANGED file

Interactive == pc \in {"done", "error"} /\ "selectbox" \in rendered

(* The user picks another option of the selectbox (line 24). *)
SelectRisk ==
    /\ Interactive
    /\ \E b \in Range(options) :
         /\ b # selected_risk
         /\ session_risk' = b
    /\ UNCHANGED session_spend
    /\ Rerun

(* The user ticks or unticks the checkbox (line 25). *)
ToggleSpend ==
    /\ Interactive
    /\ session_spend' = ~min_gambling_spend
    /\ UNCHANGED session_risk
    /\ Rerun

Next ==
    \/ Load
    \/ NormalizeTable
    \/ Sidebar
    \/ Filter
    \/ Header
    \/ BucketTable
    \/ BarChart
    \/ Summary
    \/ Details
    \/ Scatter
    \/ PdfExport
    \/ SelectRisk
    \/ ToggleSpend

Spec == Init /\ [][Next]_vars

-----------------------------------------------------------------------------
(* Properties.                                                              *)

(* Lines 13-20 have completed in this run. *)
Normalized ==
    /\ pc \notin {"load", "normalize"}
    /\ pc = "error" => error.line > 20

(* Lines 28-30 have completed in this run. *)
Filtered ==
    /\ pc \notin {"load", "normalize", "sidebar", "filter"}
    /\ pc = "error" => error.line > 30

(* Lines 61-73 have completed in this run. *)
Detailed ==
    /\ pc \in {"scatter", "pdf", "done", "error"}
    /\ pc = "error" => error.line > 73

(* f holds exactly the rows of t at the positions P, under their labels. *)
IsSubframe(f, t, P) ==
    /\ Len(f.index) = Len(f.rows)
    /\ \A p, q \in 1..Len(f.index) : p < q => f.index[p] < f.index[q]
    /\ {f.index[p] + 1 : p \in 1..Len(f.index)} = P
    /\ \A p \in 1..Len(f.rows) : f.rows[p] = t.rows[f.index[p] + 1]

InBucket(t, sel) == {p \in 1..Len(t.rows) : t.rows[p]["risk_bucket"] = sel}

OverThreshold(t) ==
    {p \in 1..Len(t.rows) :
        t.rows[p]["gambling_spend"].n > 100 * t.rows[p]["gambling_spend"].d}

(* C1: with the spend flag off the filtered subset is exactly the rows of   *)
(* the full table whose risk_bucket equals the selection, and the number in *)
(* the header is the number of rows of that subset, which is also the       *)
(* number of detail panels.                                                 *)
C1_BucketFilterExact ==
    (Filtered /\ ~min_gambling_spend) =>
        /\ IsSubframe(filtered_df, df, InBucket(df, selected_risk))
        /\ "header" \in rendered =>
              /\ header.n = Cardinality(InBucket(df, selected_risk))
              /\ header.n = Len(filtered_df.rows)
        /\ Detailed => Len(panels) = header.n

C1_Witness ==
    /\ pc = "done"
    /\ ~min_gambling_spend
    /\ header.n = 2
    /\ Len(df.rows) = 3
    /\ Len(panels) = 2
    /\ filtered_df.index = <<0, 2>>

(* C2: with the spend flag on the filtered subset is exactly the rows of    *)
(* the selected bucket whose gambling_spend is strictly greater than 100,   *)
(* and every row of it is a row of the result with the flag off.            *)
C2_SpendFilterStrict ==
    (Filtered /\ min_gambling_spend) =>
        /\ IsSubframe(filtered_df, df,
                      InBucket(df, selected_risk) \cap OverThreshold(df))
        /\ LET off == FilterData(df, selected_risk, FALSE).filtered_df
           IN  \A p \in 1..Len(filtered_df.rows) :
                 \E q \in 1..Len(off.rows) :
                    /\ off.index[q] = filtered_df.index[p]
                    /\ off.rows[q] = filtered_df.rows[p]
        /\ \A p \in 1..Len(filtered_df.rows) :
              filtered_df.rows[p]["gambling_spend"] # FloatV(100, 1)

(* The rows [High/150, High/50, Low/200], "High" selected, the flag on:     *)
(* exactly the first row is left.                                           *)
C2_Witness ==
    /\ Filtered
    /\ min_gambling_spend
    /\ selected_risk = StrB("High")
    /\ Len(df.rows) = 3
    /\ [p \in 1..3 |-> df.rows[p]["risk_bucket"].s] = <<"High", "High", "Low">>
    /\ [p \in 1..3 |-> df.rows[p]["gambling_spend"].n] = <<150, 50, 200>>
    /\ filtered_df.index = <<0>>

RequiredCols == {"risk_score", "risk_bucket", "gambling_days",
                 "gambling_spend", "total_txn_count", "total_spend",
                 "gambling_txn_pct", "gambling_pct_of_spend", "risk_reason"}

(* The selected bucket has rows, none of them over the threshold, and the   *)
(* flag is on.                                                              *)
EmptySubset ==
    /\ Filtered
    /\ RequiredCols \subseteq file.cols
    /\ min_gambling_spend
    /\ InBucket(df, selected_risk) # {}
    /\ Len(filtered_df.rows) = 0

(* C3: over an empty filtered subset the three summary metrics raise no     *)
(* error and each is displayed as a "no data" placeholder, not as a raw     *)
(* not-a-number value; the rest of the page is rendered.                    *)
C3_EmptySubsetPlaceholder ==
    EmptySubset =>
        /\ pc # "error"
        /\ "metrics" \in rendered =>
              \A m \in 1..Len(metrics) : metrics[m] \notin {"£nan", "nan"}
        /\ pc = "done" =>
              {"details_heading", "scatter", "download_button"} \subseteq rendered

(* C4: a file that lacks a required column halts the run during load or     *)
(* normalization, before anything is rendered.                              *)
C4_MissingColumnHaltsAtStartup ==
    (RequiredCols \ file.cols # {}) =>
        /\ rendered = {}
        /\ pc \in {"load", "normalize", "error"}
        /\ pc = "error" => error.line <= 20

(* C5: a derived gambling_txn_count is an integer nearest to                *)
(* gambling_txn_pct * total_txn_count, and on an exact tie the even one.    *)
C5_DerivedCountRounded ==
    (Normalized /\ "gambling_txn_count" \notin file.cols) =>
        /\ Len(df.rows) = Len(file.rows)
        /\ \A p \in 1..Len(df.rows) :
             LET c == df.rows[p]["gambling_txn_count"]
                 pct == file.rows[p]["gambling_txn_pct"]
                 tot == file.rows[p]["total_txn_count"]
                 num == pct.n * tot.n
                 den == pct.d * tot.d
                 gap == IF c.n * den >= num THEN c.n * den - num
                        ELSE num - c.n * den
             IN  /\ c.k = "int" /\ c.d = 1
                 /\ 2 * gap <= den
                 /\ 2 * gap = den => c.n % 2 = 0

(* pct = 1/2 with total 5 (the product is 2.5) and with total 3 (1.5). *)
C5_Witness ==
    /\ Normalized
    /\ "gambling_txn_count" \notin file.cols
    /\ Len(df.rows) = 2
    /\ df.rows[1]["gambling_txn_pct"] = FloatV(2, 4)
    /\ df.rows[1]["total_txn_count"] = IntV(5)
    /\ df.rows[1]["gambling_txn_count"] = IntV(2)
    /\ df.rows[2]["gambling_txn_pct"] = FloatV(2, 4)
    /\ df.rows[2]["total_txn_count"] = IntV(3)
    /\ df.rows[2]["gambling_txn_count"] = IntV(2)

RECURSIVE SumCounts(_)
SumCounts(es) == IF es = <<>> THEN 0 ELSE Head(es).count + SumCounts(Tail(es))

(* C6: the bucket table has exactly one entry per distinct risk_bucket      *)
(* value of the full table, and its counts sum to the number of rows.       *)
C6_BucketCountsSum ==
    ("bucket_table" \in rendered) =>
        /\ \A p \in 1..Len(df.rows) :
              Cardinality({e \in 1..Len(bucket_counts) :
                  bucket_counts[e].bucket = df.rows[p]["risk_bucket"]}) = 1
        /\ \A e \in 1..Len(bucket_counts) :
              \E p \in 1..Len(df.rows) :
                  df.rows[p]["risk_bucket"] = bucket_counts[e].bucket
        /\ SumCounts(bucket_counts) = Len(df.rows)

(* A file with a missing risk_bucket cell next to a "High". *)
C6_Witness ==
    /\ "bucket_table" \in rendered
    /\ \E p \in 1..Len(file.rows) : file.rows[p]["risk_bucket"] = NaNB
    /\ Len(bucket_counts) = 2
    /\ \E e \in 1..2 : bucket_counts[e] = [bucket |-> StrB("nan"), count |-> 1]

(* C7: the counts of the table and of the bar chart are those of the full   *)
(* table, listed by non-increasing count, whatever the selection and the    *)
(* flag are.                                                                *)
C7_CountsOverFullTable ==
    ("bar_chart" \in rendered) =>
        /\ bar = bucket_counts
        /\ \A e \in 1..Len(bucket_counts) :
              bucket_counts[e].count =
                  Cardinality(InBucket(df, bucket_counts[e].bucket))
        /\ \A e, g \in 1..Len(bucket_counts) :
              e < g => bucket_counts[e].count >= bucket_counts[g].count
        /\ bucket_counts = value_counts(Normalize(read_csv(file)).df)

(* The less frequent bucket comes first in the file and is selected, with   *)
(* the flag on, after the user changed both widgets.                        *)
C7_Witness ==
    /\ "bar_chart" \in rendered
    /\ Len(bar) = 2
    /\ bar[1].count = 2 /\ bar[2].count = 1
    /\ df.rows[1]["risk_bucket"] = bar[2].bucket
    /\ selected_risk = options[2]
    /\ min_gambling_spend
    /\ Len(filtered_df.rows) < Len(df.rows)

(* C8: after every run, whatever the user did, the full table is the table  *)
(* the startup normalization made of the file; the filter leaves it alone.  *)
C8_FullTableUnchanged ==
    Normalized =>
        /\ df = Normalize(read_csv(file)).df
        /\ Len(df.rows) = Len(file.rows)
        /\ df.index = [p \in 1..Len(file.rows) |-> p - 1]

C8_Witness ==
    /\ pc = "done"
    /\ session_spend
    /\ session_risk # NoneB
    /\ selected_risk # options[1]
    /\ Len(df.rows) = 3
    /\ Len(filtered_df.rows) = 1

(* C9: normalizing a normalized table changes nothing: no gambling_days is  *)
(* left, deposit_days is kept, and a gambling_txn_count that the file       *)
(* supplied keeps the values of the file.                                   *)
C9_NormalizeIdempotent ==
    Normalized =>
        /\ Normalize(df) = [err |-> NoError, df |-> df]
        /\ "gambling_days" \notin df.cols
        /\ "gambling_days" \in file.cols =>
              /\ "deposit_days" \in df.cols
              /\ \A p \in 1..Len(df.rows) :
                    df.rows[p]["deposit_days"] = file.rows[p]["gambling_days"]
        /\ "gambling_txn_count" \in file.cols =>
              \A p \in 1..Len(df.rows) :
                 df.rows[p]["gambling_txn_count"] = file.rows[p]["gambling_txn_count"]

(* A supplied count of 7 where the derivation would give 1, and a float     *)
(* risk_score 2.5 that was cast to 2.                                       *)
C9_Witness ==
    /\ Normalized
    /\ "gambling_txn_count" \in file.cols
    /\ Len(df.rows) = 1
    /\ file.rows[1]["risk_score"] = FloatV(5, 2)
    /\ df.rows[1]["risk_score"] = IntV(2)
    /\ df.rows[1]["gambling_txn_count"] = IntV(7)
    /\ DerivedCount(df.rows[1]) = IntV(1)

=============================================================================
